---- MODULE Spec2Model ----
(***************************************************************************)
(* grule: project analysis (ProjectAnalyzer) and rule recommendation       *)
(* (RuleEngine) of src/grule.py.                                           *)
(*                                                                         *)
(* Spec         RuleEngine.recommend_rules applied to an arbitrary profile *)
(*              (any sequence of facts up to MaxFacts, plus the profiles   *)
(*              of the documented large-project scenario).                 *)
(* SpecAnalyze  ProjectAnalyzer.analyze run inside working_directory       *)
(*              scopes, followed by recommend_rules on its result.         *)
(* SpecEngine   RuleEngine.__init__ (_load_config) on a configuration      *)
(*              document, followed by recommend_rules.                     *)
(* SpecInstall  RuleManager.install_rules: analysis, recommendation and    *)
(*              the cursor and claude installation targets.                *)
(* SpecToolchain  _analyze_toolchain on a given project directory.         *)
(* SpecDeploy   RuleManager.deploy_rules under error_handler.              *)
(*                                                                         *)
(* A ProjectFeature is modelled by its key and value; its description and  *)
(* confidence are display-only and read by no code modelled here.  Reason  *)
(* texts are given in English; the source has them in Chinese.             *)
(***************************************************************************)
EXTENDS Integers, Sequences, FiniteSets, TLC

VARIABLES
    features,          \* the profile: ProjectAnalyzer.features / the argument of recommend_rules
    recommendations,   \* the list returned by recommend_rules
    pc,                \* position of the run
    cwd,               \* the process working directory
    scopes,            \* prev_cwd of every open working_directory scope, innermost last
    project_path,      \* ProjectAnalyzer.project_path
    git_dir,           \* whether project_path/.git exists
    start_cwd,         \* history: the working directory before any scope was opened
    call_cwd,          \* history: the working directory immediately before analyze was called
    raised,            \* whether an exception is propagating out of analyze
    config_doc,        \* the configuration document rule-config.json on disk
    config,            \* RuleEngine.config, the loaded rule table
    project_files,     \* what the toolchain probe finds in the project directory
    target,            \* the target argument of install_rules
    targets_run,       \* the installation targets install_rules has run
    cursor_rules,      \* rule_names received by _install_cursor_rules
    claude_rules,      \* rule_names received by _install_claude_rules
    library,           \* the rule library directory ~/.agent-rules
    deploy_call,       \* arguments of deploy_rules and outcomes of the calls it makes
    result             \* what deploy_rules or install_rules returned

\* The state of the engine's configuration, of the installer and of the deployment.
ext_vars == <<config_doc, config, project_files, target, targets_run, cursor_rules,
              claude_rules, library, deploy_call, result>>

vars == <<features, recommendations, pc, cwd, scopes, project_path, git_dir,
          start_cwd, call_cwd, raised, ext_vars>>

(***************************************************************************)
(* Bounds                                                                  *)
(***************************************************************************)
MaxFacts == 3
MaxDepth == 1

(***************************************************************************)
(* Data classes                                                            *)
(***************************************************************************)
ProjectFeature(k, v) == [key |-> k, value |-> v]

RuleRecommendation(n, r, w, c) == [name |-> n, reason |-> r, weight |-> w, category |-> c]

Max(S) == CHOOSE x \in S : \A y \in S : y <= x

(***************************************************************************)
(* RuleEngine.recommend_rules                                              *)
(***************************************************************************)
\* feature_dict = {f.key: f.value for f in features}; feature_dict.get(key, default):
\* a later fact with the same key overwrites an earlier one.
feature_dict_get(fs, key, default) ==
    LET idx == {i \in DOMAIN fs : fs[i].key = key}
    IN  IF idx = {} THEN default ELSE fs[Max(idx)].value

core_rules ==
    << RuleRecommendation("implement-task", "core development workflow rule", 10, "core"),
       RuleRecommendation("bug-fix", "core development workflow rule", 10, "core"),
       RuleRecommendation("quick-wins", "quick wins strategy", 8, "productivity") >>

large_rules ==
    << RuleRecommendation("code-analysis", "large project needs strict code quality control", 9, "quality"),
       RuleRecommendation("pr-review", "large project needs code review", 8, "collaboration"),
       RuleRecommendation("continuous-improvement", "large project needs continuous improvement", 7, "process") >>

medium_rules ==
    << RuleRecommendation("code-analysis", "medium project needs code quality checks", 7, "quality"),
       RuleRecommendation("check", "medium project needs a check mechanism", 6, "quality") >>

small_rules ==
    << RuleRecommendation("clean", "small project focuses on clean code", 7, "maintenance"),
       RuleRecommendation("commit", "small project needs commit conventions", 6, "workflow") >>

size_rules_fallthrough(fs) ==
    LET project_size == feature_dict_get(fs, "project_size", "small")
    IN  (IF project_size = "large" THEN large_rules ELSE <<>>)
        \o (IF project_size = "medium" THEN medium_rules ELSE small_rules)

size_rules_default_medium(fs) ==
    LET project_size == feature_dict_get(fs, "project_size", "medium")
    IN  IF project_size = "large" THEN large_rules
        ELSE IF project_size = "medium" THEN medium_rules
        ELSE small_rules

size_rules(fs) ==
    LET project_size == feature_dict_get(fs, "project_size", "small")
    IN  IF project_size = "large" THEN large_rules
        ELSE IF project_size = "medium" THEN medium_rules
        ELSE small_rules

CodeAnalysisLanguages == {"javascript", "typescript", "python", "java", "csharp"}

language_rule(lang) ==
    IF lang = "swift"
    THEN << RuleRecommendation("modern-swift", "Swift project needs modern Swift conventions", 9, "language_specific") >>
    ELSE IF lang \in CodeAnalysisLanguages
    THEN << RuleRecommendation("code-analysis", lang \o " project needs code quality analysis", 7, "quality") >>
    ELSE <<>>

RECURSIVE language_rules(_)
language_rules(fs) ==
    IF fs = <<>> THEN <<>>
    ELSE (IF Head(fs).key = "languages" THEN language_rule(Head(fs).value) ELSE <<>>)
         \o language_rules(Tail(fs))

team_rules(fs) ==
    LET team_size == feature_dict_get(fs, "team_size", "solo")
    IN  IF team_size \in {"medium", "large"}
        THEN << RuleRecommendation("pr-review", "team project needs code review", 8, "collaboration"),
                RuleRecommendation("add-to-changelog", "team project needs a change record", 6, "documentation") >>
        ELSE <<>>

toolchain_rules(fs) ==
    (IF feature_dict_get(fs, "has_testing", "None") = "true"
     THEN << RuleRecommendation("five", "test framework present, improve test quality", 8, "testing") >>
     ELSE <<>>)
    \o
    (IF feature_dict_get(fs, "has_git", "None") = "true"
     THEN << RuleRecommendation("commit", "Git project needs commit conventions", 8, "workflow") >>
     ELSE <<>>)

meta_rules_none == <<>>

meta_rules ==
    << RuleRecommendation("rule-effectiveness-tracker", "track rule effectiveness", 5, "meta") >>

\* The list `recommendations` before deduplication, in emission order.
candidates(fs) ==
    core_rules \o size_rules(fs) \o language_rules(fs) \o team_rules(fs)
    \o toolchain_rules(fs) \o meta_rules

\* unique_recommendations is an insertion-ordered dict, modelled as the sequence of
\* its values: a new name is appended, a replaced name keeps its position.
dict_index(d, name) == {i \in DOMAIN d : d[i].name = name}

dict_put_last_wins(d, rec) ==
    LET at == dict_index(d, rec.name)
    IN  IF at = {} THEN Append(d, rec)
        ELSE [d EXCEPT ![CHOOSE i \in at : TRUE] = rec]

dict_put_replace_on_equal(d, rec) ==
    LET at == dict_index(d, rec.name)
    IN  IF at = {} THEN Append(d, rec)
        ELSE LET i == CHOOSE j \in at : TRUE
             IN  IF rec.weight >= d[i].weight THEN [d EXCEPT ![i] = rec] ELSE d

dict_put_reinsert(d, rec) ==
    LET at == dict_index(d, rec.name)
    IN  IF at = {} THEN Append(d, rec)
        ELSE LET i == CHOOSE j \in at : TRUE
             IN  IF rec.weight > d[i].weight
                 THEN Append(SelectSeq(d, LAMBDA r : r.name # rec.name), rec)
                 ELSE d

dict_put(d, rec) ==
    LET at == dict_index(d, rec.name)
    IN  IF at = {} THEN Append(d, rec)
        ELSE LET i == CHOOSE j \in at : TRUE
             IN  IF rec.weight > d[i].weight THEN [d EXCEPT ![i] = rec] ELSE d

RECURSIVE unique_recommendations(_, _)
unique_recommendations(recs, d) ==
    IF recs = <<>> THEN d
    ELSE unique_recommendations(Tail(recs), dict_put(d, Head(recs)))

\* sorted(..., key=lambda x: x.weight, reverse=True): a stable sort, so x goes after
\* every element already placed whose weight is not smaller.
sorted_insert_ascending(s, x) ==
    LET k == Cardinality({i \in DOMAIN s : s[i].weight <= x.weight})
    IN  SubSeq(s, 1, k) \o <<x>> \o SubSeq(s, k + 1, Len(s))

sorted_insert(s, x) ==
    LET k == Cardinality({i \in DOMAIN s : s[i].weight >= x.weight})
    IN  SubSeq(s, 1, k) \o <<x>> \o SubSeq(s, k + 1, Len(s))

RECURSIVE sorted_by_weight(_, _)
sorted_by_weight(values, acc) ==
    IF values = <<>> THEN acc
    ELSE sorted_by_weight(Tail(values), sorted_insert(acc, Head(values)))

recommend_rules(fs) ==
    sorted_by_weight(unique_recommendations(candidates(fs), <<>>), <<>>)


(***************************************************************************)
(* RuleEngine.__init__ and _load_config                                    *)
(***************************************************************************)
\* A rule table maps a rule id to its entry (the description is left out).
RuleEntry(c, w, cond, t) == [category |-> c, weight |-> w, conditions |-> cond, tags |-> t]

\* _get_default_config()["rules"]
default_config ==
    ("implement-task" :> RuleEntry("core", 10, "always", {"essential", "development"}))
    @@ ("bug-fix" :> RuleEntry("core", 10, "always", {"essential", "debugging"}))
    @@ ("quick-wins" :> RuleEntry("productivity", 8, "always", {"productivity", "optimization"}))

\* The configuration document is "missing", "inaccessible" (its directory cannot be
\* searched, so that the existence test itself fails), "unreadable" (open fails),
\* "malformed" (json.load fails) or "ok" with the rule table it holds.
DocStates == {"missing", "inaccessible", "unreadable", "malformed", "ok"}

\* _load_config: config_path.exists() is called outside the try block and raises
\* when stat fails with anything but a not-found error; a failing open or
\* json.load is caught and answered with the default table.
load_config(doc) ==
    IF doc.state = "inaccessible" THEN [raises |-> TRUE, rules |-> default_config]
    ELSE IF doc.state = "missing" THEN [raises |-> FALSE, rules |-> default_config]
    ELSE IF doc.state \in {"unreadable", "malformed"}
    THEN [raises |-> FALSE, rules |-> default_config]
    ELSE [raises |-> FALSE, rules |-> doc.rules]

(***************************************************************************)
(* The state outside the run of a specification                            *)
(***************************************************************************)
NoProjectFiles ==
    [has_testing |-> FALSE, has_cicd |-> FALSE, has_docker |-> FALSE,
     readme |-> "absent", lines |-> 0, eol |-> FALSE]

NoDeployCall ==
    [before |-> "absent", force |-> FALSE, source |-> "none", copy |-> "ok",
     clone |-> "ok", write_config |-> "ok"]

ExtIdle ==
    /\ config_doc = [state |-> "missing", rules |-> default_config]
    /\ config = default_config
    /\ project_files = NoProjectFiles
    /\ target = "both"
    /\ targets_run = {}
    /\ cursor_rules = <<>>
    /\ claude_rules = <<>>
    /\ library = "absent"
    /\ deploy_call = NoDeployCall
    /\ result = "none"

(***************************************************************************)
(* Spec: recommend_rules on an arbitrary profile                           *)
(***************************************************************************)
SizeValues == {"large", "medium", "small"}
LanguageValues == {"swift", "python", "go"}
TeamValues == {"large", "medium", "solo"}

FactUniverse ==
    {ProjectFeature("project_size", v) : v \in SizeValues}
    \cup {ProjectFeature("languages", v) : v \in LanguageValues}
    \cup {ProjectFeature("team_size", v) : v \in TeamValues}
    \cup {ProjectFeature("has_testing", "true"), ProjectFeature("has_git", "true")}

\* The facts of the documented scenario: a large python project of a large team
\* with tests and git.
ScenarioFacts ==
    {ProjectFeature("project_size", "large"), ProjectFeature("languages", "python"),
     ProjectFeature("team_size", "large"), ProjectFeature("has_testing", "true"),
     ProjectFeature("has_git", "true")}

Orderings(S) ==
    {f \in [1..Cardinality(S) -> S] : \A i, j \in 1..Cardinality(S) : f[i] = f[j] => i = j}

Profiles ==
    UNION {[1..n -> FactUniverse] : n \in 0..MaxFacts} \cup Orderings(ScenarioFacts)

Init ==
    /\ features \in Profiles
    /\ recommendations = <<>>
    /\ pc = "ready"
    /\ cwd = "/home"
    /\ scopes = <<>>
    /\ project_path = "/proj"
    /\ git_dir = FALSE
    /\ start_cwd = "/home"
    /\ call_cwd = "/home"
    /\ raised = FALSE
    /\ ExtIdle

\* recommendations = self.engine.recommend_rules(features)
Recommend ==
    /\ pc \in {"ready", "returned"}
    /\ recommendations' = recommend_rules(features)
    /\ pc' = "done"
    /\ UNCHANGED <<features, cwd, scopes, project_path, git_dir, start_cwd, call_cwd, raised>>
    /\ UNCHANGED ext_vars

Next == Recommend

Spec == Init /\ [][Next]_vars


(***************************************************************************)
(* working_directory and ProjectAnalyzer.analyze                           *)
(***************************************************************************)
\* Directories that exist; "/gone" is a project_path that does not.
Dirs == {"/home", "/tmp", "/proj"}

ProjectPaths == {"/proj", "/gone"}

\* Directories a caller switches to in a scope of its own around analyze.
OuterDirs == {"/tmp", "/proj"}

\* working_directory, after the yield: the finally clause restores prev_cwd
\* whether or not the body raised (exc).
cwd_after_scope_no_finally(prev_cwd, now, exc) == IF exc THEN now ELSE prev_cwd

cwd_after_scope(prev_cwd, now, exc) == prev_cwd

Pop(s) == SubSeq(s, 1, Len(s) - 1)

Last(s) == s[Len(s)]

\* _analyze_project_size: the size classification.
FileCounts == {0, 10, 11, 50, 51}
LineCounts == {0, 1000, 1001, 10000, 10001}

classify_size(file_count, line_count) ==
    IF file_count > 50 \/ line_count > 10000 THEN "large"
    ELSE IF file_count > 10 \/ line_count > 1000 THEN "medium"
    ELSE "small"

\* _analyze_languages: one fact per language found, in the order of the table
\* (of which python and swift are modelled).
language_indicators == <<"python", "swift">>

language_facts(found) ==
    LET langs == SelectSeq(language_indicators, LAMBDA l : l \in found)
    IN  [i \in DOMAIN langs |-> ProjectFeature("languages", langs[i])]

\* _analyze_frameworks: package.json (of whose framework_map react is modelled),
\* then requirements.txt and pyproject.toml (django).  A file is "absent",
\* "unreadable" (read or parse fails, swallowed) or "ok".
FileStates == {"absent", "unreadable", "ok"}

framework_fact(state, mentioned, framework) ==
    IF state = "ok" /\ mentioned THEN << ProjectFeature("frameworks", framework) >> ELSE <<>>

framework_facts(package_json, react, requirements, django_req, pyproject, django_pyp) ==
    framework_fact(package_json, react, "react")
    \o framework_fact(requirements, django_req, "django")
    \o framework_fact(pyproject, django_pyp, "django")

\* _analyze_team_info.  A git invocation ends "ok" (returncode 0), "fail"
\* (returncode non-zero) or "raise" (git is missing, or the count does not parse).
GitOutcomes == {"ok", "fail", "raise"}
ContributorCounts == {1, 2, 3, 4, 10, 11}
CommitCounts == {0, 10, 11, 100, 101}

classify_team(contributors) ==
    IF contributors > 10 THEN "large"
    ELSE IF contributors > 3 THEN "medium"
    ELSE IF contributors > 1 THEN "small"
    ELSE "solo"

classify_maturity(commits) ==
    IF commits > 100 THEN "mature"
    ELSE IF commits > 10 THEN "developing"
    ELSE "new"

git_query_facts(log, contributors, rev_list, commits) ==
    IF log = "raise" THEN <<>>
    ELSE (IF log = "ok"
          THEN << ProjectFeature("team_size", classify_team(contributors)) >> ELSE <<>>)
         \o (IF rev_list = "ok"
             THEN << ProjectFeature("project_maturity", classify_maturity(commits)) >> ELSE <<>>)

team_info_facts_unguarded(git, log, contributors, rev_list, commits) ==
    (IF git THEN << ProjectFeature("has_git", "true") >> ELSE <<>>)
    \o git_query_facts(log, contributors, rev_list, commits)

team_info_facts(git, log, contributors, rev_list, commits) ==
    IF git
    THEN << ProjectFeature("has_git", "true") >>
         \o git_query_facts(log, contributors, rev_list, commits)
    ELSE <<>>

\* _analyze_toolchain.  README.md has `lines` lines of text, the last one followed
\* by a newline or not (eol); content.split('\n') has one part more than the
\* content has newline characters.
ReadmeLines == {0, 19, 20, 21}

split_parts(lines, eol) ==
    IF lines = 0 THEN 1 ELSE (lines - 1) + (IF eol THEN 1 ELSE 0) + 1

documentation_facts(readme, lines, eol) ==
    IF readme = "ok" /\ split_parts(lines, eol) > 20
    THEN << ProjectFeature("has_documentation", "true") >> ELSE <<>>

toolchain_facts(has_testing, has_cicd, has_docker, readme, lines, eol) ==
    (IF has_testing THEN << ProjectFeature("has_testing", "true") >> ELSE <<>>)
    \o (IF has_cicd THEN << ProjectFeature("has_cicd", "true") >> ELSE <<>>)
    \o (IF has_docker THEN << ProjectFeature("has_docker", "true") >> ELSE <<>>)
    \o documentation_facts(readme, lines, eol)

InitAnalyze ==
    /\ features = <<>>
    /\ recommendations = <<>>
    /\ pc = "idle"
    /\ cwd = "/home"
    /\ scopes = <<>>
    /\ project_path \in ProjectPaths
    /\ git_dir \in BOOLEAN
    /\ start_cwd = "/home"
    /\ call_cwd = "/home"
    /\ raised = FALSE
    /\ ExtIdle

\* A caller opens a working_directory scope of its own before it calls analyze.
OuterEnter ==
    /\ pc = "idle"
    /\ Len(scopes) < MaxDepth
    /\ \E d \in OuterDirs :
          /\ scopes' = Append(scopes, cwd)
          /\ cwd' = d
    /\ UNCHANGED <<features, recommendations, pc, project_path, git_dir, start_cwd,
                   call_cwd, raised>>
    /\ UNCHANGED ext_vars

\* analyze is called: self.features = [].
AnalyzeCall ==
    /\ pc = "idle"
    /\ features' = <<>>
    /\ call_cwd' = cwd
    /\ pc' = "enter"
    /\ UNCHANGED <<recommendations, cwd, scopes, project_path, git_dir, start_cwd, raised>>
    /\ UNCHANGED ext_vars

\* with working_directory(self.project_path): prev_cwd = Path.cwd(); os.chdir(path).
\* chdir to a missing directory raises before the try block is entered.
ScopeEnter ==
    /\ pc = "enter"
    /\ \/ /\ project_path \in Dirs
          /\ scopes' = Append(scopes, cwd)
          /\ cwd' = project_path
          /\ pc' = "size"
          /\ raised' = raised
       \/ /\ project_path \notin Dirs
          /\ raised' = TRUE
          /\ pc' = "raised"
          /\ UNCHANGED <<scopes, cwd>>
    /\ UNCHANGED <<features, recommendations, project_path, git_dir, start_cwd, call_cwd>>
    /\ UNCHANGED ext_vars

\* A probe raises from a call it does not guard (rglob, exists): the exception
\* leaves the with block.
ProbeRaises ==
    /\ raised' = TRUE
    /\ pc' = "exit"
    /\ UNCHANGED features

AnalyzeProjectSize ==
    /\ pc = "size"
    /\ \/ \E file_count \in FileCounts, line_count \in LineCounts :
             /\ features' = Append(features,
                    ProjectFeature("project_size", classify_size(file_count, line_count)))
             /\ pc' = "languages"
             /\ raised' = raised
       \/ ProbeRaises
    /\ UNCHANGED <<recommendations, cwd, scopes, project_path, git_dir, start_cwd, call_cwd>>
    /\ UNCHANGED ext_vars

AnalyzeLanguages ==
    /\ pc = "languages"
    /\ \/ \E found \in SUBSET {language_indicators[i] : i \in DOMAIN language_indicators} :
             /\ features' = features \o language_facts(found)
             /\ pc' = "frameworks"
             /\ raised' = raised
       \/ ProbeRaises
    /\ UNCHANGED <<recommendations, cwd, scopes, project_path, git_dir, start_cwd, call_cwd>>
    /\ UNCHANGED ext_vars

AnalyzeFrameworks ==
    /\ pc = "frameworks"
    /\ \/ \E package_json, requirements, pyproject \in FileStates,
             react, django_req, django_pyp \in BOOLEAN :
             /\ features' = features \o framework_facts(package_json, react, requirements,
                                                        django_req, pyproject, django_pyp)
             /\ pc' = "team"
             /\ raised' = raised
       \/ ProbeRaises
    /\ UNCHANGED <<recommendations, cwd, scopes, project_path, git_dir, start_cwd, call_cwd>>
    /\ UNCHANGED ext_vars

AnalyzeTeamInfo ==
    /\ pc = "team"
    /\ \/ \E log, rev_list \in GitOutcomes,
             contributors \in ContributorCounts, commits \in CommitCounts :
             /\ features' = features \o team_info_facts(git_dir, log, contributors,
                                                        rev_list, commits)
             /\ pc' = "toolchain"
             /\ raised' = raised
       \/ ProbeRaises
    /\ UNCHANGED <<recommendations, cwd, scopes, project_path, git_dir, start_cwd, call_cwd>>
    /\ UNCHANGED ext_vars

AnalyzeToolchain ==
    /\ pc = "toolchain"
    /\ \/ \E has_testing, has_cicd, has_docker, eol \in BOOLEAN,
             readme \in FileStates, lines \in ReadmeLines :
             /\ features' = features \o toolchain_facts(has_testing, has_cicd, has_docker,
                                                        readme, lines, eol)
             /\ pc' = "exit"
             /\ raised' = raised
       \/ ProbeRaises
    /\ UNCHANGED <<recommendations, cwd, scopes, project_path, git_dir, start_cwd, call_cwd>>
    /\ UNCHANGED ext_vars

\* The with block of analyze is left: os.chdir(prev_cwd); then analyze returns
\* self.features, or the exception of the probe propagates to the caller.
ScopeExit ==
    /\ pc = "exit"
    /\ cwd' = cwd_after_scope(Last(scopes), cwd, raised)
    /\ scopes' = Pop(scopes)
    /\ pc' = IF raised THEN "raised" ELSE "returned"
    /\ UNCHANGED <<features, recommendations, project_path, git_dir, start_cwd, call_cwd,
                   raised>>
    /\ UNCHANGED ext_vars

\* The caller's own scopes are left, innermost first, normally or by the exception.
OuterExit ==
    /\ pc \in {"done", "raised", "unwound"}
    /\ scopes # <<>>
    /\ cwd' = cwd_after_scope(Last(scopes), cwd, raised)
    /\ scopes' = Pop(scopes)
    /\ pc' = "unwound"
    /\ UNCHANGED <<features, recommendations, project_path, git_dir, start_cwd, call_cwd,
                   raised>>
    /\ UNCHANGED ext_vars

NextAnalyze ==
    \/ OuterEnter
    \/ AnalyzeCall
    \/ ScopeEnter
    \/ AnalyzeProjectSize
    \/ AnalyzeLanguages
    \/ AnalyzeFrameworks
    \/ AnalyzeTeamInfo
    \/ AnalyzeToolchain
    \/ ScopeExit
    \/ Recommend
    \/ OuterExit

SpecAnalyze == InitAnalyze /\ [][NextAnalyze]_vars

(***************************************************************************)
(* Vocabulary of the claims                                                *)
(***************************************************************************)
Min(S) == CHOOSE x \in S : \A y \in S : x <= y

Returned == pc = "done"

Names(recs) == {recs[i].name : i \in DOMAIN recs}

NameWeights(recs) == [i \in DOMAIN recs |-> <<recs[i].name, recs[i].weight>>]

HasFact(fs, k, v) == \E i \in DOMAIN fs : fs[i].key = k /\ fs[i].value = v

HasKey(fs, k) == \E i \in DOMAIN fs : fs[i].key = k

\* Positions in the emitted candidate list c at which a name was proposed.
Emissions(c, name) == {k \in DOMAIN c : c[k].name = name}

FirstEmission(c, name) == Min(Emissions(c, name))

MaxEmittedWeight(c, name) == Max({c[k].weight : k \in Emissions(c, name)})

FirstHeaviestEmission(c, name) ==
    Min({k \in Emissions(c, name) : c[k].weight = MaxEmittedWeight(c, name)})

\* C1: the returned list has pairwise distinct rule names, and each entry carries
\* the maximum weight among the emitted candidates of that name.
C1_UniqueNamesMaxWeight ==
    Returned =>
        LET c == candidates(features)
        IN  /\ \A i, j \in DOMAIN recommendations :
                  recommendations[i].name = recommendations[j].name => i = j
            /\ \A i \in DOMAIN recommendations :
                  /\ Emissions(c, recommendations[i].name) # {}
                  /\ recommendations[i].weight = MaxEmittedWeight(c, recommendations[i].name)

\* A name proposed twice with different weights has been deduplicated.
C1_Witness ==
    /\ Returned
    /\ LET c == candidates(features)
       IN  \E k, l \in DOMAIN c :
              /\ c[k].name = c[l].name
              /\ c[k].weight > c[l].weight
              /\ k < l

\* C2: the returned list is non-increasing in weight, and entries of equal weight
\* appear in the order in which their names were first emitted.
C2_RankedStable ==
    Returned =>
        LET c == candidates(features)
            first == [i \in DOMAIN recommendations |-> FirstEmission(c, recommendations[i].name)]
        IN  \A i, j \in DOMAIN recommendations :
                i < j =>
                    /\ recommendations[i].weight >= recommendations[j].weight
                    /\ recommendations[i].weight = recommendations[j].weight
                          => first[i] < first[j]

\* Two entries tie, the earlier one got its weight from a later, heavier candidate
\* that was emitted after the first emission of the other.
C2_Witness ==
    /\ Returned
    /\ LET c == candidates(features)
       IN  \E i, j \in DOMAIN recommendations :
              /\ i < j
              /\ recommendations[i].weight = recommendations[j].weight
              /\ FirstEmission(c, recommendations[j].name)
                    < FirstHeaviestEmission(c, recommendations[i].name)

\* C3: the entry kept for a name is the first-emitted candidate among those of
\* maximum weight, with its reason and category.
C3_FirstHeaviestKept ==
    Returned =>
        LET c == candidates(features)
        IN  /\ \A k \in DOMAIN c : c[k].name \in Names(recommendations)
            /\ \A i \in DOMAIN recommendations :
                  recommendations[i] = c[FirstHeaviestEmission(c, recommendations[i].name)]

\* pr-review was proposed by the large-size block and again, with the same weight
\* and another reason, by the team block; the entry kept is the first.
C3_Witness ==
    /\ Returned
    /\ LET c == candidates(features)
       IN  \E k, l \in Emissions(c, "pr-review") :
              /\ k < l
              /\ c[k].weight = c[l].weight
              /\ c[k].reason # c[l].reason
              /\ \E i \in DOMAIN recommendations : recommendations[i] = c[k]

\* C4: for every profile recommend_rules returns a list that contains the three
\* core rules and the effectiveness tracker.
C4_AlwaysOnRules ==
    Returned =>
        {"implement-task", "bug-fix", "quick-wins", "rule-effectiveness-tracker"}
            \subseteq Names(recommendations)

\* recommend_rules has returned for the empty profile.
C4_Witness == Returned /\ features = <<>> /\ recommendations # <<>>

SizeBranches == {"large", "medium", "small"}

BranchRuleSet(b) ==
    IF b = "large" THEN {"code-analysis", "pr-review", "continuous-improvement"}
    ELSE IF b = "medium" THEN {"code-analysis", "check"}
    ELSE {"clean", "commit"}

\* The size the engine reads from the profile: the value of its last project_size
\* fact, "absent" when it has none.
ProfileSize == feature_dict_get(features, "project_size", "absent")

SelectedBranch == IF ProfileSize \in {"large", "medium"} THEN ProfileSize ELSE "small"

\* C5: exactly one size-branch rule set is completely present in the output, the
\* one selected by the profile's project_size.
C5_OneSizeBranch ==
    Returned =>
        {b \in SizeBranches : BranchRuleSet(b) \subseteq Names(recommendations)}
            = {SelectedBranch}

\* A large project with git: commit, a rule of the small branch, is in the output
\* although the small branch was not selected.
C5_Witness ==
    /\ Returned
    /\ SelectedBranch = "large"
    /\ "commit" \in Names(recommendations)

\* C6: project_size large gives code-analysis, pr-review and continuous-improvement,
\* medium gives code-analysis and check, small or no project_size fact gives clean
\* and commit, and these rules are in the output.
C6_SizeTierMapping ==
    Returned =>
        /\ ProfileSize = "large" =>
              {"code-analysis", "pr-review", "continuous-improvement"} \subseteq Names(recommendations)
        /\ ProfileSize = "medium" =>
              {"code-analysis", "check"} \subseteq Names(recommendations)
        /\ ProfileSize \in {"small", "absent"} =>
              {"clean", "commit"} \subseteq Names(recommendations)

\* A non-empty profile without a project_size fact got the small branch.
C6_Witness ==
    /\ Returned
    /\ features # <<>>
    /\ ~HasKey(features, "project_size")
    /\ {"clean", "commit"} \subseteq Names(recommendations)

IsScenarioProfile ==
    /\ Len(features) = 5
    /\ {features[i] : i \in DOMAIN features} = ScenarioFacts

\* C7 as stated: for the scenario profile the output is the ten rules in the listed
\* order, pr-review before quick-wins.
C7_ListedOrder ==
    Returned /\ IsScenarioProfile =>
        NameWeights(recommendations)
            = << <<"implement-task", 10>>, <<"bug-fix", 10>>, <<"code-analysis", 9>>,
                 <<"pr-review", 8>>, <<"quick-wins", 8>>, <<"five", 8>>, <<"commit", 8>>,
                 <<"continuous-improvement", 7>>, <<"add-to-changelog", 6>>,
                 <<"rule-effectiveness-tracker", 5>> >>

\* C7 as amended: the same ten rules and weights, with quick-wins before pr-review
\* among the rules of weight 8 (the order of first emission); code-analysis is the
\* candidate of the large-size block.
C7_ScenarioOutput ==
    Returned /\ IsScenarioProfile =>
        /\ NameWeights(recommendations)
              = << <<"implement-task", 10>>, <<"bug-fix", 10>>, <<"code-analysis", 9>>,
                   <<"quick-wins", 8>>, <<"pr-review", 8>>, <<"five", 8>>, <<"commit", 8>>,
                   <<"continuous-improvement", 7>>, <<"add-to-changelog", 6>>,
                   <<"rule-effectiveness-tracker", 5>> >>
        /\ recommendations[3] = large_rules[1]

\* recommend_rules has returned for the scenario profile, facts in the claim's order.
C7_Witness ==
    /\ Returned
    /\ features = << ProjectFeature("project_size", "large"), ProjectFeature("languages", "python"),
                     ProjectFeature("team_size", "large"), ProjectFeature("has_testing", "true"),
                     ProjectFeature("has_git", "true") >>
    /\ Len(recommendations) = 10

Reorderings(fs) ==
    {[i \in DOMAIN fs |-> fs[p[i]]] : p \in Orderings(DOMAIN fs)}

NameWeightSet(recs) == {<<recs[i].name, recs[i].weight>> : i \in DOMAIN recs}

\* C9: a profile with the same facts in another order gets the same rule names
\* with the same weights.
C9_OrderIndependent ==
    Returned =>
        \A q \in Reorderings(features) :
            NameWeightSet(recommend_rules(q)) = NameWeightSet(recommendations)


GitFactKeys == {"has_git", "team_size", "project_maturity"}

Recommended == pc \in {"done", "unwound"} /\ ~raised

NoGitFacts == \A i \in DOMAIN features : features[i].key \notin GitFactKeys

\* C8 as stated: without a .git directory analyze emits no has_git, team_size or
\* project_maturity fact, and the recommendation has no pr-review, no
\* add-to-changelog and no commit other than the small-size one of weight 6.
C8_NoGitNoPrReview ==
    ~git_dir =>
        /\ NoGitFacts
        /\ Recommended =>
              /\ "pr-review" \notin Names(recommendations)
              /\ "add-to-changelog" \notin Names(recommendations)
              /\ \A i \in DOMAIN recommendations :
                    recommendations[i].name = "commit" => recommendations[i] = small_rules[2]

\* C8 as amended: without a .git directory analyze emits no has_git, team_size or
\* project_maturity fact, and the recommendation has no add-to-changelog, no
\* pr-review other than the one of the large-size branch and no commit other than
\* the one of the small-size branch, of weight 6.
C8_NoGitDir ==
    ~git_dir =>
        /\ NoGitFacts
        /\ Recommended =>
              /\ "add-to-changelog" \notin Names(recommendations)
              /\ \A i \in DOMAIN recommendations :
                    /\ recommendations[i].name = "pr-review" =>
                          /\ recommendations[i] = large_rules[2]
                          /\ ProfileSize = "large"
                    /\ recommendations[i].name = "commit" =>
                          /\ recommendations[i] = small_rules[2]
                          /\ recommendations[i].weight = 6
                          /\ ProfileSize = "small"

\* A large project without .git has been analysed and got pr-review.
C8_Witness ==
    /\ ~git_dir
    /\ pc = "done"
    /\ HasFact(features, "project_size", "large")
    /\ "pr-review" \in Names(recommendations)

\* C10: when analyze has ended, by return or by an exception, the working directory
\* is the one in effect immediately before the call; and when every enclosing
\* scope has been left too, it is the one in effect before the first was opened.
C10_CwdRestored ==
    /\ pc \in {"returned", "raised", "done"} => cwd = call_cwd
    /\ pc \in {"returned", "raised", "done"} /\ scopes = <<>> => cwd = start_cwd
    /\ pc = "unwound" /\ scopes = <<>> => cwd = start_cwd

\* A probe raised part-way through the scan, inside a scope of the caller, and the
\* working directory is again the caller's, which is not the project's.
C10_Witness ==
    /\ pc = "raised"
    /\ features # <<>>
    /\ scopes # <<>>
    /\ cwd = call_cwd
    /\ cwd # project_path
    /\ cwd # start_cwd


\* C11: analyze never aborts on a failing check of a probe: whenever the project
\* directory can be entered, no exception leaves analyze.
C11_NeverAborts == project_path \in Dirs => ~raised

(***************************************************************************)
(* SpecEngine: a RuleEngine is constructed from the configuration document *)
(* and asked for a recommendation                                          *)
(***************************************************************************)
\* Rule tables a configuration document may hold: the default one, the default one
\* with other conditions and tags, one that gives core rules another weight and
\* category, and one that defines a rule of the size block.
ConfigTables ==
    { default_config,
      ("implement-task" :> RuleEntry("core", 10, "never", {"legacy"}))
      @@ ("bug-fix" :> RuleEntry("core", 10, "always", {}))
      @@ ("quick-wins" :> RuleEntry("productivity", 8, "always", {"productivity"})),
      ("implement-task" :> RuleEntry("custom", 3, "always", {"essential"}))
      @@ ("bug-fix" :> RuleEntry("core", 10, "always", {"essential"})),
      ("clean" :> RuleEntry("style", 2, "always", {})) }

ConfigDocs ==
    {[state |-> st, rules |-> default_config] : st \in DocStates \ {"ok"}}
    \cup {[state |-> "ok", rules |-> t] : t \in ConfigTables}

InitEngine ==
    /\ features \in Profiles
    /\ recommendations = <<>>
    /\ pc = "new"
    /\ cwd = "/home"
    /\ scopes = <<>>
    /\ project_path = "/proj"
    /\ git_dir = FALSE
    /\ start_cwd = "/home"
    /\ call_cwd = "/home"
    /\ raised = FALSE
    /\ config_doc \in ConfigDocs
    /\ config = default_config
    /\ project_files = NoProjectFiles
    /\ target = "both"
    /\ targets_run = {}
    /\ cursor_rules = <<>>
    /\ claude_rules = <<>>
    /\ library = "absent"
    /\ deploy_call = NoDeployCall
    /\ result = "none"

\* RuleEngine.__init__: self.config = self._load_config()
Construct ==
    /\ pc = "new"
    /\ LET loaded == load_config(config_doc)
       IN  IF loaded.raises
           THEN /\ pc' = "init_raised"
                /\ config' = config
           ELSE /\ pc' = "ready"
                /\ config' = loaded.rules
    /\ UNCHANGED <<features, recommendations, cwd, scopes, project_path, git_dir,
                   start_cwd, call_cwd, raised>>
    /\ UNCHANGED <<config_doc, project_files, target, targets_run, cursor_rules,
                   claude_rules, library, deploy_call, result>>

NextEngine ==
    \/ Construct
    \/ Recommend

SpecEngine == InitEngine /\ [][NextEngine]_vars

\* C12: with a configuration document that is missing, unreadable or unparsable,
\* construction of the engine completes and the rule table is the default one, with
\* implement-task, bug-fix and quick-wins.
C12_ConstructionNeverFails ==
    config_doc.state # "ok" =>
        /\ pc # "init_raised"
        /\ pc \in {"ready", "done"} =>
              /\ config = default_config
              /\ {"implement-task", "bug-fix", "quick-wins"} \subseteq DOMAIN config

\* C13: a recommended rule that the loaded rule table defines has the weight and
\* the category of its table entry.
C13_TableWeightsUsed ==
    pc = "done" =>
        \A i \in DOMAIN recommendations :
            recommendations[i].name \in DOMAIN config =>
                /\ recommendations[i].weight = config[recommendations[i].name].weight
                /\ recommendations[i].category = config[recommendations[i].name].category

(***************************************************************************)
(* SpecInstall: RuleManager.install_rules                                  *)
(***************************************************************************)
Targets == {"cursor", "claude", "both"}

\* recommended_rule_names = [r.name for r in recommendations]
recommended_rule_names(recs) == [i \in DOMAIN recs |-> recs[i].name]

foundational_rule_names ==
    <<"gissue-workflow", "gmemory-best-practices", "project-retrospective">>

\* list(dict.fromkeys(names)): the first occurrence of every name, in order.
RECURSIVE dict_fromkeys(_, _)
dict_fromkeys(names, acc) ==
    IF names = <<>> THEN acc
    ELSE dict_fromkeys(Tail(names),
                       IF \E i \in DOMAIN acc : acc[i] = Head(names)
                       THEN acc ELSE Append(acc, Head(names)))

\* The rule_names argument of _install_cursor_rules.
cursor_rule_names_with_foundational(names) == foundational_rule_names \o names

cursor_rule_names(names) == names

\* The rule_names argument of _install_claude_rules: the foundational rules merged
\* with the recommended ones.
claude_rule_names(names) == dict_fromkeys(foundational_rule_names \o names, <<>>)

InitInstall ==
    /\ features = <<>>
    /\ recommendations = <<>>
    /\ pc = "install"
    /\ cwd = "/home"
    /\ scopes = <<>>
    /\ project_path \in ProjectPaths
    /\ git_dir \in BOOLEAN
    /\ start_cwd = "/home"
    /\ call_cwd = "/home"
    /\ raised = FALSE
    /\ config_doc = [state |-> "missing", rules |-> default_config]
    /\ config = default_config
    /\ project_files = NoProjectFiles
    /\ target \in Targets
    /\ targets_run = {}
    /\ cursor_rules = <<>>
    /\ claude_rules = <<>>
    /\ library \in {"absent", "old"}
    /\ deploy_call = NoDeployCall
    /\ result = "none"

InstallFrame ==
    UNCHANGED <<features, recommendations, cwd, scopes, project_path, git_dir, start_cwd,
                call_cwd, raised, config_doc, config, project_files, target, library,
                deploy_call>>

\* install_rules up to the analysis: without a deployed library it returns False;
\* otherwise the foundational rule files are copied (a step that names no
\* recommended rule) and the analysis starts.
InstallBegin ==
    /\ pc = "install"
    /\ \/ /\ library = "absent"
          /\ result' = "False"
          /\ pc' = "finished"
       \/ /\ library # "absent"
          /\ result' = result
          /\ pc' = "idle"
    /\ UNCHANGED <<targets_run, cursor_rules, claude_rules>>
    /\ InstallFrame

\* analyze raised: error_handler(reraise=False) logs the exception and returns None.
InstallAbort ==
    /\ pc = "raised"
    /\ result' = "None"
    /\ pc' = "finished"
    /\ UNCHANGED <<targets_run, cursor_rules, claude_rules>>
    /\ InstallFrame

\* if target in ["cursor", "both"]: self._install_cursor_rules(recommended_rule_names);
\* a failing mkdir or copy raises, and error_handler returns None.
InstallCursor ==
    /\ pc = "done"
    /\ \/ /\ target \in {"cursor", "both"}
          /\ cursor_rules' = cursor_rule_names(recommended_rule_names(recommendations))
          /\ targets_run' = targets_run \cup {"cursor"}
          /\ \/ /\ pc' = "cursor_done"
                /\ result' = result
             \/ /\ pc' = "finished"
                /\ result' = "None"
       \/ /\ target = "claude"
          /\ pc' = "cursor_done"
          /\ UNCHANGED <<cursor_rules, targets_run, result>>
    /\ UNCHANGED claude_rules
    /\ InstallFrame

\* if target in ["claude", "both"]: self._install_claude_rules(unique_rule_names);
\* then install_rules returns True, unless writing CLAUDE.md raised.
InstallClaude ==
    /\ pc = "cursor_done"
    /\ \/ /\ target \in {"claude", "both"}
          /\ claude_rules' = claude_rule_names(recommended_rule_names(recommendations))
          /\ targets_run' = targets_run \cup {"claude"}
          /\ result' \in {"True", "None"}
       \/ /\ target = "cursor"
          /\ result' = "True"
          /\ UNCHANGED <<claude_rules, targets_run>>
    /\ pc' = "finished"
    /\ UNCHANGED cursor_rules
    /\ InstallFrame

NextInstall ==
    \/ InstallBegin
    \/ AnalyzeCall
    \/ ScopeEnter
    \/ AnalyzeProjectSize
    \/ AnalyzeLanguages
    \/ AnalyzeFrameworks
    \/ AnalyzeTeamInfo
    \/ AnalyzeToolchain
    \/ ScopeExit
    \/ InstallAbort
    \/ Recommend
    \/ InstallCursor
    \/ InstallClaude

SpecInstall == InitInstall /\ [][NextInstall]_vars

ProjectFiles ==
    [has_testing : BOOLEAN, has_cicd : BOOLEAN, has_docker : BOOLEAN,
     readme : FileStates, lines : ReadmeLines, eol : BOOLEAN]

InitToolchain ==
    /\ features = <<>>
    /\ recommendations = <<>>
    /\ pc = "toolchain"
    /\ cwd = "/proj"
    /\ scopes = <<"/home">>
    /\ project_path = "/proj"
    /\ git_dir = FALSE
    /\ start_cwd = "/home"
    /\ call_cwd = "/home"
    /\ raised = FALSE
    /\ config_doc = [state |-> "missing", rules |-> default_config]
    /\ config = default_config
    /\ project_files \in ProjectFiles
    /\ target = "both"
    /\ targets_run = {}
    /\ cursor_rules = <<>>
    /\ claude_rules = <<>>
    /\ library = "absent"
    /\ deploy_call = NoDeployCall
    /\ result = "none"

\* _analyze_toolchain on the project directory described by project_files.
ProbeToolchain ==
    /\ pc = "toolchain"
    /\ \/ /\ features' = features \o toolchain_facts(project_files.has_testing,
                                                     project_files.has_cicd,
                                                     project_files.has_docker,
                                                     project_files.readme,
                                                     project_files.lines,
                                                     project_files.eol)
          /\ pc' = "exit"
          /\ raised' = raised
       \/ ProbeRaises
    /\ UNCHANGED <<recommendations, cwd, scopes, project_path, git_dir, start_cwd, call_cwd>>
    /\ UNCHANGED ext_vars

NextToolchain ==
    \/ ProbeToolchain
    \/ ScopeExit

SpecToolchain == InitToolchain /\ [][NextToolchain]_vars

\* C15: the probe emits has_documentation=true exactly when README.md is readable
\* and has more than 20 lines, whether or not its last line ends with a newline.
C15_DocumentationIffMoreThan20Lines ==
    pc = "returned" =>
        (HasFact(features, "has_documentation", "true")
            <=> (project_files.readme = "ok" /\ project_files.lines > 20))

(***************************************************************************)
(* SpecDeploy: RuleManager.deploy_rules                                    *)
(***************************************************************************)
\* deploy_call: before is the library before the call ("absent" or "old"), force and
\* source (source_path is None, names a missing path or names a present one) are the
\* arguments, copy, clone and write_config are the outcomes of shutil.copytree, of
\* git clone ("fails": non-zero returncode, "no_git": FileNotFoundError, "raises":
\* another exception) and of writing rule-config.json.
DeployCalls ==
    [before : {"absent", "old"}, force : BOOLEAN, source : {"none", "missing", "present"},
     copy : {"ok", "raises"}, clone : {"ok", "fails", "no_git", "raises"},
     write_config : {"ok", "raises"}]

\* What _create_config_file and the return make of a library just copied or cloned.
create_config_file(fresh, call) ==
    IF call.write_config = "raises"
    THEN [library |-> fresh, result |-> "None"]
    ELSE [library |-> fresh, result |-> "True"]

\* deploy_rules under error_handler(reraise=False): the library directory afterwards
\* and the value returned (None when an exception was caught).
deploy_rules(lib, call) ==
    IF lib # "absent" /\ ~call.force
    THEN [library |-> lib, result |-> "False"]
    ELSE LET cleared == IF call.force /\ lib # "absent" THEN "absent" ELSE lib
         IN  IF call.source # "none"
             THEN IF call.source = "missing"
                  THEN [library |-> cleared, result |-> "False"]
                  ELSE IF call.copy = "raises"
                  THEN [library |-> "partial", result |-> "None"]
                  ELSE create_config_file("copied", call)
             ELSE IF call.clone = "ok" THEN create_config_file("cloned", call)
                  ELSE IF call.clone \in {"fails", "no_git"}
                  THEN [library |-> cleared, result |-> "False"]
                  ELSE [library |-> cleared, result |-> "None"]

InitDeploy ==
    /\ features = <<>>
    /\ recommendations = <<>>
    /\ pc = "deploy"
    /\ cwd = "/home"
    /\ scopes = <<>>
    /\ project_path = "/proj"
    /\ git_dir = FALSE
    /\ start_cwd = "/home"
    /\ call_cwd = "/home"
    /\ raised = FALSE
    /\ config_doc = [state |-> "missing", rules |-> default_config]
    /\ config = default_config
    /\ project_files = NoProjectFiles
    /\ target = "both"
    /\ targets_run = {}
    /\ cursor_rules = <<>>
    /\ claude_rules = <<>>
    /\ deploy_call \in DeployCalls
    /\ library = deploy_call.before
    /\ result = "none"

DeployRules ==
    /\ pc = "deploy"
    /\ library' = deploy_rules(library, deploy_call).library
    /\ result' = deploy_rules(library, deploy_call).result
    /\ pc' = "finished"
    /\ UNCHANGED <<features, recommendations, cwd, scopes, project_path, git_dir,
                   start_cwd, call_cwd, raised>>
    /\ UNCHANGED <<config_doc, config, project_files, target, targets_run, cursor_rules,
                   claude_rules, deploy_call>>

NextDeploy == DeployRules

SpecDeploy == InitDeploy /\ [][NextDeploy]_vars

\* C16: a call of deploy_rules that returns False or None leaves a library that
\* was deployed before the call in place, unchanged.
C16_FailedDeployKeepsLibrary ==
    pc = "finished" /\ result \in {"False", "None"} /\ deploy_call.before # "absent"
        => library = deploy_call.before

====
